---- MODULE Spec2Model ----
(***************************************************************************)
(* Model of the chiru constraint interpreter (src/src/interpreter.rs):     *)
(* InterpreterState, its constraint graph and scope stack, and one action  *)
(* per public operation.  Ids are the integers the fresh_*_id counters     *)
(* issue; a HashMap that is only ever inserted into under consecutive ids  *)
(* is a sequence indexed by id, the capability table (which loses entries  *)
(* on scope exit) is a set of records carrying their id.  The description  *)
(* strings are left out.                                                   *)
(*                                                                         *)
(* Spec and SpecWide run any sequence of interpreter calls.  SpecMain runs *)
(* main (main.rs): execute (exec.rs) over the statements of some program,  *)
(* then SafetyReport (report.rs).  SpecPhase adds the phase registry that  *)
(* exec.rs and report.rs use and interpreter.rs does not hold.  SpecParse  *)
(* runs parser::parse (parser.rs) over some source file.                   *)
(***************************************************************************)
EXTENDS Integers, Sequences, FiniteSets, TLC

\* ---------------------------------------------------------------- bounds
MaxScopes == 2
MaxRegions == 1
MaxValues == 1
MaxLifetimes == 2
MaxCapabilities == 2
MaxAssumptions == 2
\* the number of entities (scopes, regions, values, lifetimes, capabilities,
\* assumptions) one run creates
MaxEntities == 6
\* the same for the deeper runs of SpecWide
MaxEntitiesWide == 7
\* the same for the programs of SpecMain
MaxEntitiesMain == 5
\* the same for the runs of SpecPhase
MaxEntitiesPhase == 5
MaxPhases == 2
\* the number of lines of a source file
MaxLines == 3

\* ---------------------------------------------------------------- types
ScopeKind == {"Module", "Function", "Block", "Unsafe"}

RegionKind == {"Stack", "Heap", "External", "Static"}

CapabilityKind == {"Own", "SharedRead", "UniqueMut", "ThreadSend", "ThreadShare"}

ValueOrigin == {"Safe", "Unsafe"}

\* Option<ScopeId>::None of ScopeNode.parent
NoScope == 0

\* the scope kinds execute hands to enter_scope
EnterKinds == {"Function", "Unsafe"}

\* the region kind drawn for declare_region (no operation reads a region's kind)
DeclaredRegionKinds == {"Heap"}

\* the capability kinds drawn for create_capability: UniqueMut and one of the
\* kinds the conflict scan does not tell apart (exec.rs:104-109 also passes Own)
GrantedKinds == {"SharedRead", "UniqueMut"}

VARIABLES
    values,              \* graph.values: id -> [region, alive, origin]
    regions,             \* graph.regions: id -> [kind, scope]
    lifetimes,           \* graph.lifetimes: id -> [scope, active]
    capabilities,        \* graph.capabilities: set of [id, kind, value, lifetime, scope]
    unsafe_assumptions,  \* graph.unsafe_assumptions: id -> [scope, affected_values]
    ownership_edges,     \* graph.ownership_edges: Vec of [value, owner]
    scopes,              \* scopes: id -> [parent, kind, active]
    scope_stack,         \* scope_stack: Vec<ScopeId>, top is the last element
    next_value_id,
    next_region_id,
    next_lifetime_id,
    next_capability_id,
    next_scope_id,
    next_assumption_id,
    phases,              \* phases: Vec of [id, name, order]
    current_phase,       \* current_phase: Option<PhaseId>
    lifetime_phase,      \* LifetimeNode.phase, per lifetime id
    capability_phase,    \* CapabilityNode.phase, per capability id
    blocks,              \* execute: the kinds of the blocks whose body is running
    stmt,                \* execute: the capability statement, when it was the last taken
    report,              \* main: the SafetyReport, what print wrote and the exit code
    exited,              \* main: the code the process exited with, once it has
    source,              \* main: the lines of the file, each a sequence of words
    parsed,              \* main: what parser::parse returned for source
    budget,              \* the number of entities this run may create
    outcome,             \* history: the last operation called and how it returned
    alloc_site,          \* history: per value, the scope stack and owner at allocation
    destroy_log          \* history: per value, the operations that set alive to false

\* the fields of InterpreterState
state == <<values, regions, lifetimes, capabilities, unsafe_assumptions,
           ownership_edges, scopes, scope_stack, next_value_id, next_region_id,
           next_lifetime_id, next_capability_id, next_scope_id, next_assumption_id>>

\* the phase table and the phase tags of the graph nodes
phasevars == <<phases, current_phase, lifetime_phase, capability_phase>>

\* what main and execute keep besides the InterpreterState
mainvars == <<blocks, stmt, report>>

\* the process around the interpreter: its exit code, its input and the AST
procvars == <<exited, source, parsed>>

vars == <<values, regions, lifetimes, capabilities, unsafe_assumptions,
          ownership_edges, scopes, scope_stack, next_value_id, next_region_id,
          next_lifetime_id, next_capability_id, next_scope_id, next_assumption_id,
          phases, current_phase, lifetime_phase, capability_phase,
          blocks, stmt, report, exited, source, parsed,
          budget, outcome, alloc_site, destroy_log>>

\* ---------------------------------------------------------------- helpers
Range(s) == {s[i] : i \in DOMAIN s}

\* how a call returned, and the steps of the exit cascade it went through
ReturnedAfter(op, result, msg, steps) ==
    [op |-> op, result |-> result, msg |-> msg, steps |-> steps]

Returned(op, result, msg) == ReturnedAfter(op, result, msg, <<>>)

\* execute walking on whatever the last call returned
Running_always == TRUE

\* execute returns at the first Err (the ? operator) and a panic unwinds main:
\* no operation follows a call that did not return Ok
Running == outcome.result = "ok"

\* the entities created so far, over all six id counters
Created ==
    (next_value_id - 1) + (next_region_id - 1) + (next_lifetime_id - 1)
    + (next_capability_id - 1) + (next_scope_id - 1) + (next_assumption_id - 1)

\* the run may still create an entity
WithinBudget == Created < budget

\* InterpreterState::new
New ==
    /\ values = <<>>
    /\ regions = <<>>
    /\ lifetimes = <<>>
    /\ capabilities = {}
    /\ unsafe_assumptions = <<>>
    /\ ownership_edges = <<>>
    /\ scopes = <<>>
    /\ scope_stack = <<>>
    /\ next_value_id = 1
    /\ next_region_id = 1
    /\ next_lifetime_id = 1
    /\ next_capability_id = 1
    /\ next_scope_id = 1
    /\ next_assumption_id = 1
    /\ outcome = Returned("new", "ok", "")
    /\ alloc_site = <<>>
    /\ destroy_log = <<>>

\* Option<PhaseId>::None of current_phase
NoPhase == -1

\* no phase declared yet
NoPhases ==
    /\ phases = <<>>
    /\ current_phase = NoPhase
    /\ lifetime_phase = <<>>
    /\ capability_phase = <<>>

\* a statement of execute: the AST node and its kind word
Stmt(node, kind) == [node |-> node, kind |-> kind]

\* the last statement taken was no capability statement
NoStmt == Stmt("none", "")

\* main before execute is called: no block open, no statement taken, no report
Idle ==
    /\ blocks = <<>>
    /\ stmt = NoStmt
    /\ report = <<>>
    /\ exited = <<>>
    /\ source = <<>>
    /\ parsed = <<>>

Init == New /\ NoPhases /\ Idle /\ budget = MaxEntities

InitWide == New /\ NoPhases /\ Idle /\ budget = MaxEntitiesWide

InitMain == New /\ NoPhases /\ Idle /\ budget = MaxEntitiesMain

InitPhase == New /\ NoPhases /\ Idle /\ budget = MaxEntitiesPhase

\* values_owned_by_scope without its owner filter
values_owned_by_scope_any(scope_id) ==
    [i \in DOMAIN ownership_edges |-> ownership_edges[i].value]

\* values_owned_by_scope: the values of the edges owned by scope_id, in edge order
values_owned_by_scope(scope_id) ==
    LET owned == SelectSeq(ownership_edges, LAMBDA edge : edge.owner = scope_id)
    IN  [i \in DOMAIN owned |-> owned[i].value]

\* is_owned_by_scope without its owner test
is_owned_by_scope_any(value, scope) ==
    \E i \in DOMAIN ownership_edges : ownership_edges[i].value = value

\* is_owned_by_scope
is_owned_by_scope(value, scope) ==
    \E i \in DOMAIN ownership_edges :
        ownership_edges[i].value = value /\ ownership_edges[i].owner = scope

\* is_in_unsafe_scope looking at the top of the stack only
is_in_unsafe_scope_top ==
    /\ scope_stack # <<>>
    /\ scopes[scope_stack[Len(scope_stack)]].kind = "Unsafe"

\* is_in_unsafe_scope: any scope on the stack is Unsafe
is_in_unsafe_scope ==
    \E i \in DOMAIN scope_stack :
        scope_stack[i] \in DOMAIN scopes /\ scopes[scope_stack[i]].kind = "Unsafe"

\* the stack positions holding a non-Unsafe scope
NonUnsafePositions ==
    {i \in DOMAIN scope_stack : scopes[scope_stack[i]].kind # "Unsafe"}

\* current_scope: the top of the stack
current_scope == scope_stack[Len(scope_stack)]

\* effective_owner_scope panics when the loop finds no non-Unsafe scope
effective_owner_panics == NonUnsafePositions = {}

\* effective_owner_scope returning the top of the stack whatever its kind
effective_owner_scope_top == scope_stack[Len(scope_stack)]

\* effective_owner_scope: first non-Unsafe scope walking the stack from the top
effective_owner_scope ==
    scope_stack[CHOOSE i \in NonUnsafePositions :
                    \A j \in NonUnsafePositions : j <= i]

\* ---------------------------------------------------------------- operations

\* enter_scope(kind)
enter_scope(kind) ==
    /\ Running
    /\ UNCHANGED budget
    /\ next_scope_id <= MaxScopes
    /\ WithinBudget
    /\ LET id == next_scope_id
           parent == IF scope_stack = <<>> THEN NoScope
                     ELSE scope_stack[Len(scope_stack)]
       IN  /\ next_scope_id' = next_scope_id + 1
           /\ scopes' = Append(scopes, [parent |-> parent, kind |-> kind, active |-> TRUE])
           /\ scope_stack' = Append(scope_stack, id)
    /\ outcome' = Returned("enter_scope", "ok", "")
    /\ UNCHANGED <<values, regions, lifetimes, capabilities, unsafe_assumptions,
                   ownership_edges, next_value_id, next_region_id, next_lifetime_id,
                   next_capability_id, next_assumption_id, alloc_site, destroy_log>>

\* declare_region(kind)
declare_region(kind) ==
    /\ Running
    /\ UNCHANGED budget
    /\ next_region_id <= MaxRegions
    /\ WithinBudget
    /\ IF scope_stack = <<>>
       THEN /\ outcome' = Returned("declare_region", "err",
                                   "Cannot declare region without an active scope")
            /\ UNCHANGED <<regions, next_region_id>>
       ELSE /\ next_region_id' = next_region_id + 1
            /\ regions' = Append(regions, [kind |-> kind,
                                           scope |-> scope_stack[Len(scope_stack)]])
            /\ outcome' = Returned("declare_region", "ok", "")
    /\ UNCHANGED <<values, lifetimes, capabilities, unsafe_assumptions, ownership_edges,
                   scopes, scope_stack, next_value_id, next_lifetime_id,
                   next_capability_id, next_scope_id, next_assumption_id,
                   alloc_site, destroy_log>>

\* allocate_value(region)
allocate_value(region) ==
    /\ Running
    /\ UNCHANGED budget
    /\ next_value_id <= MaxValues
    /\ WithinBudget
    /\ IF effective_owner_panics
       THEN /\ outcome' = Returned("allocate_value", "panic",
                                   "No non-unsafe scope found for ownership")
            /\ UNCHANGED <<values, ownership_edges, next_value_id, alloc_site,
                           destroy_log>>
       ELSE IF region \notin DOMAIN regions
       THEN /\ outcome' = Returned("allocate_value", "err", "Region does not exist")
            /\ UNCHANGED <<values, ownership_edges, next_value_id, alloc_site,
                           destroy_log>>
       ELSE LET scope_id == effective_owner_scope
                id == next_value_id
            IN  /\ next_value_id' = next_value_id + 1
                /\ values' = Append(values,
                       [region |-> region, alive |-> TRUE,
                        origin |-> IF is_in_unsafe_scope THEN "Unsafe" ELSE "Safe"])
                /\ ownership_edges' = Append(ownership_edges,
                                             [value |-> id, owner |-> scope_id])
                /\ alloc_site' = Append(alloc_site,
                                        [stack |-> scope_stack, owner |-> scope_id])
                /\ destroy_log' = Append(destroy_log, <<>>)
                /\ outcome' = Returned("allocate_value", "ok", "")
    /\ UNCHANGED <<regions, lifetimes, capabilities, unsafe_assumptions, scopes,
                   scope_stack, next_region_id, next_lifetime_id, next_capability_id,
                   next_scope_id, next_assumption_id>>

\* exit_scope keeping the capabilities of the exited scope
retain_capabilities_kept(scope_id) == capabilities

\* exit_scope, lines 199-200: capabilities.retain(|_, cap| cap.scope != scope_id)
retain_capabilities(scope_id) ==
    {cap \in capabilities : cap.scope # scope_id}

\* exit_scope leaving the lifetimes of the exited scope active
expire_lifetimes_none(scope_id) == lifetimes

\* exit_scope, lines 203-208: every lifetime bound to scope_id becomes inactive
expire_lifetimes(scope_id) ==
    [l \in DOMAIN lifetimes |->
        IF lifetimes[l].scope = scope_id
        THEN [lifetimes[l] EXCEPT !.active = FALSE]
        ELSE lifetimes[l]]

\* exit_scope, lines 211-224: the loop over owned_values; it stops at the first
\* value that is missing or already destroyed, leaving the earlier ones destroyed
RECURSIVE destroy_owned(_, _, _)
destroy_owned(owned, vals, log) ==
    IF owned = <<>>
    THEN [values |-> vals, log |-> log, err |-> ""]
    ELSE LET value_id == Head(owned)
         IN  IF value_id \notin DOMAIN vals
             THEN [values |-> vals, log |-> log,
                   err |-> "Owned value not found in graph"]
             ELSE IF ~vals[value_id].alive
             THEN [values |-> vals, log |-> log,
                   err |-> "Value already destroyed before scope exit"]
             ELSE destroy_owned(Tail(owned),
                                [vals EXCEPT ![value_id].alive = FALSE],
                                [log EXCEPT ![value_id] = Append(@, "exit_scope")])

\* exit_scope keeping the ownership edges of the exited scope
remove_scope_edges_kept(scope_id) == ownership_edges

\* exit_scope, line 227: ownership_edges.retain(|edge| edge.owner != scope_id)
remove_scope_edges(scope_id) ==
    SelectSeq(ownership_edges, LAMBDA edge : edge.owner # scope_id)

\* exit_scope leaving the popped scope marked active
deactivate_scope_skipped(scope_id) == scopes

\* exit_scope, lines 230-231: scope.active = false
deactivate_scope(scope_id) == [scopes EXCEPT ![scope_id].active = FALSE]

\* exit_scope, lines 197-234: the tables the exit cascade writes, in the order
\* of the statements that write them
exit_cascade == <<"capabilities", "lifetimes", "values", "edges", "scope">>

\* the steps of the exit cascade up to and including step
cascade_through(step) ==
    SubSeq(exit_cascade, 1,
           CHOOSE i \in DOMAIN exit_cascade : exit_cascade[i] = step)

\* exit_scope()
exit_scope ==
    /\ Running
    /\ UNCHANGED budget
    /\ IF scope_stack = <<>>
       THEN /\ outcome' = Returned("exit_scope", "err",
                                   "Attempted to exit scope, but no scope is active")
            /\ UNCHANGED <<scope_stack, capabilities, lifetimes, values,
                           ownership_edges, scopes, destroy_log>>
       ELSE LET scope_id == scope_stack[Len(scope_stack)]
                owned_values == values_owned_by_scope(scope_id)
                destroyed == destroy_owned(owned_values, values, destroy_log)
            IN  /\ scope_stack' = SubSeq(scope_stack, 1, Len(scope_stack) - 1)
                /\ capabilities' = retain_capabilities(scope_id)
                /\ lifetimes' = expire_lifetimes(scope_id)
                /\ values' = destroyed.values
                /\ destroy_log' = destroyed.log
                /\ IF destroyed.err # ""
                   THEN /\ outcome' = ReturnedAfter("exit_scope", "err", destroyed.err,
                                                     cascade_through("values"))
                        /\ UNCHANGED <<ownership_edges, scopes>>
                   ELSE /\ ownership_edges' = remove_scope_edges(scope_id)
                        /\ IF scope_id \in DOMAIN scopes
                           THEN /\ scopes' = deactivate_scope(scope_id)
                                /\ outcome' = ReturnedAfter("exit_scope", "ok", "",
                                                             cascade_through("scope"))
                           ELSE /\ outcome' = ReturnedAfter("exit_scope", "err",
                                                             "Scope not found during exit",
                                                             cascade_through("edges"))
                                /\ UNCHANGED scopes
    /\ UNCHANGED <<regions, unsafe_assumptions, next_value_id, next_region_id,
                   next_lifetime_id, next_capability_id, next_scope_id,
                   next_assumption_id, alloc_site>>

\* create_lifetime(scope)
create_lifetime(scope) ==
    /\ Running
    /\ UNCHANGED budget
    /\ next_lifetime_id <= MaxLifetimes
    /\ WithinBudget
    /\ IF scope \notin DOMAIN scopes
       THEN /\ outcome' = Returned("create_lifetime", "err",
                                   "Lifetime bound to non-existent scope")
            /\ UNCHANGED <<lifetimes, next_lifetime_id>>
       ELSE IF ~scopes[scope].active
       THEN /\ outcome' = Returned("create_lifetime", "err",
                                   "Cannot bind lifetime to inactive scope")
            /\ UNCHANGED <<lifetimes, next_lifetime_id>>
       ELSE /\ next_lifetime_id' = next_lifetime_id + 1
            /\ lifetimes' = Append(lifetimes, [scope |-> scope, active |-> TRUE])
            /\ outcome' = Returned("create_lifetime", "ok", "")
    /\ UNCHANGED <<values, regions, capabilities, unsafe_assumptions, ownership_edges,
                   scopes, scope_stack, next_value_id, next_region_id,
                   next_capability_id, next_scope_id, next_assumption_id,
                   alloc_site, destroy_log>>

\* create_capability, lines 297-320: the conflict scan over the capability table
capability_conflict(kind, value, lifetime) ==
    \E cap \in capabilities :
        /\ cap.value = value
        /\ cap.lifetime = lifetime
        /\ (cap.kind = "UniqueMut" \/ kind = "UniqueMut")

\* create_capability(kind, value, lifetime)
create_capability(kind, value, lifetime) ==
    /\ Running
    /\ UNCHANGED budget
    /\ next_capability_id <= MaxCapabilities
    /\ WithinBudget
    /\ LET Err(msg) == /\ outcome' = Returned("create_capability", "err", msg)
                       /\ UNCHANGED <<capabilities, next_capability_id>>
       IN  IF value \notin DOMAIN values
           THEN Err("Capability refers to non-existent value")
           ELSE IF ~values[value].alive
           THEN Err("Cannot create capability for destroyed value")
           ELSE IF lifetime \notin DOMAIN lifetimes
           THEN Err("Capability refers to non-existent lifetime")
           ELSE IF ~lifetimes[lifetime].active
           THEN Err("Cannot create capability with inactive lifetime")
           ELSE IF scope_stack = <<>>
           THEN Err("No active scope for capability creation")
           ELSE IF capability_conflict(kind, value, lifetime)
           THEN Err("Capability conflict")
           ELSE /\ next_capability_id' = next_capability_id + 1
                /\ capabilities' = capabilities \cup
                       {[id |-> next_capability_id, kind |-> kind, value |-> value,
                         lifetime |-> lifetime,
                         scope |-> scope_stack[Len(scope_stack)]]}
                /\ outcome' = Returned("create_capability", "ok", "")
    /\ UNCHANGED <<values, regions, lifetimes, unsafe_assumptions, ownership_edges,
                   scopes, scope_stack, next_value_id, next_region_id,
                   next_lifetime_id, next_scope_id, next_assumption_id,
                   alloc_site, destroy_log>>

\* drop_value without its capability check
has_active_caps_skipped(value, scope_id) == FALSE

\* drop_value, lines 357-360: the capability check
has_active_caps(value, scope_id) ==
    \E cap \in capabilities : cap.value = value /\ cap.scope = scope_id

\* drop_value keeping the ownership edge of the dropped value
remove_value_edges_kept(value) == ownership_edges

\* drop_value, line 385: ownership_edges.retain(|edge| edge.value != value)
remove_value_edges(value) ==
    SelectSeq(ownership_edges, LAMBDA edge : edge.value # value)

\* drop_value(value)
drop_value(value) ==
    /\ Running
    /\ UNCHANGED budget
    /\ LET Err(msg) == /\ outcome' = Returned("drop_value", "err", msg)
                       /\ UNCHANGED <<values, ownership_edges, destroy_log>>
       IN  IF scope_stack = <<>>
           THEN Err("No active scope for drop")
           ELSE IF value \notin DOMAIN values
           THEN Err("Attempted to drop non-existent value")
           ELSE IF ~values[value].alive
           THEN Err("Attempted to drop value that is already destroyed")
           ELSE IF ~is_owned_by_scope(value, scope_stack[Len(scope_stack)])
           THEN Err("Cannot drop value not owned by current scope")
           ELSE IF has_active_caps(value, scope_stack[Len(scope_stack)])
           THEN Err("Cannot drop value because active capabilities exist")
           ELSE /\ values' = [values EXCEPT ![value].alive = FALSE]
                /\ destroy_log' = [destroy_log EXCEPT ![value] = Append(@, "drop_value")]
                /\ ownership_edges' = remove_value_edges(value)
                /\ outcome' = Returned("drop_value", "ok", "")
    /\ UNCHANGED <<regions, lifetimes, capabilities, unsafe_assumptions, scopes,
                   scope_stack, next_value_id, next_region_id, next_lifetime_id,
                   next_capability_id, next_scope_id, next_assumption_id, alloc_site>>

\* add_unsafe_assumption(description, affected_values); execute passes every
\* value bound so far as affected_values (exec.rs:147)
add_unsafe_assumption(affected_values) ==
    /\ Running
    /\ UNCHANGED budget
    /\ next_assumption_id <= MaxAssumptions
    /\ WithinBudget
    /\ IF ~is_in_unsafe_scope
       THEN /\ outcome' = Returned("add_unsafe_assumption", "err",
                       "Unsafe assumptions must be declared inside unsafe scope")
            /\ UNCHANGED <<unsafe_assumptions, next_assumption_id>>
       ELSE /\ next_assumption_id' = next_assumption_id + 1
            /\ unsafe_assumptions' = Append(unsafe_assumptions,
                   [scope |-> scope_stack[Len(scope_stack)],
                    affected_values |-> affected_values])
            /\ outcome' = Returned("add_unsafe_assumption", "ok", "")
    /\ UNCHANGED <<values, regions, lifetimes, capabilities, ownership_edges, scopes,
                   scope_stack, next_value_id, next_region_id, next_lifetime_id,
                   next_capability_id, next_scope_id, alloc_site, destroy_log>>

\* Any sequence of calls on an InterpreterState.  An id argument is one an
\* earlier call returned or the next unissued one (an id the tables lack);
\* the kinds are those execute (exec.rs) passes.
Next ==
    \/ \E kind \in EnterKinds :
           enter_scope(kind) /\ UNCHANGED <<phasevars, mainvars, procvars>>
    \/ exit_scope /\ UNCHANGED <<phasevars, mainvars, procvars>>
    \/ \E kind \in DeclaredRegionKinds :
           declare_region(kind) /\ UNCHANGED <<phasevars, mainvars, procvars>>
    \/ \E region \in 1..next_region_id :
           allocate_value(region) /\ UNCHANGED <<phasevars, mainvars, procvars>>
    \/ \E scope \in 1..next_scope_id :
           create_lifetime(scope) /\ UNCHANGED <<phasevars, mainvars, procvars>>
    \/ \E kind \in GrantedKinds, value \in 1..next_value_id,
          lifetime \in 1..next_lifetime_id :
           create_capability(kind, value, lifetime)
           /\ UNCHANGED <<phasevars, mainvars, procvars>>
    \/ \E value \in 1..next_value_id :
           drop_value(value) /\ UNCHANGED <<phasevars, mainvars, procvars>>
    \/ add_unsafe_assumption(DOMAIN values) /\ UNCHANGED <<phasevars, mainvars, procvars>>

Spec == Init /\ [][Next]_vars

\* the same operations with one more entity to create
SpecWide == InitWide /\ [][Next]_vars

\* ---------------------------------------------------------------- execute
\* main (main.rs) and execute (exec.rs): the program is walked statement by
\* statement, a block's body between its enter_scope and its exit_scope.  A
\* name of ExecContext stands for the id it was bound to; the next unissued id
\* stands for a name that was never bound.

\* the region kind words a program may carry
RegionWords == {"heap", "arena"}

\* the capability kind words a program may carry
CapabilityWords == {"Own", "SharedRead", "UniqueMut", "ThreadSend", "ThreadShare"}

\* execute, lines 60-66: the match on the region kind word
region_kind(word) ==
    CASE word = "heap" -> "Heap"
      [] word = "stack" -> "Stack"
      [] word = "external" -> "External"
      [] word = "static" -> "Static"
      [] OTHER -> "Unknown"

\* execute, lines 104-109: the match on the capability kind word
capability_kind(word) ==
    CASE word = "Own" -> "Own"
      [] word = "SharedRead" -> "SharedRead"
      [] word = "UniqueMut" -> "UniqueMut"
      [] OTHER -> "Unknown"

\* execute returning Err itself, without a call into the interpreter
execute_err(msg) ==
    /\ Running
    /\ outcome' = Returned("execute", "err", msg)
    /\ UNCHANGED <<state, budget, alloc_site, destroy_log>>

\* AstNode::Function and AstNode::Unsafe, first half: enter_scope, then the body
execute_block(kind) ==
    /\ enter_scope(kind)
    /\ blocks' = Append(blocks, kind)
    /\ stmt' = NoStmt
    /\ UNCHANGED <<report, phasevars, procvars>>

\* AstNode::Function and AstNode::Unsafe, second half: the body returned Ok,
\* exit_scope()? follows
execute_block_end ==
    /\ blocks # <<>>
    /\ exit_scope
    /\ blocks' = IF outcome'.result = "ok"
                 THEN SubSeq(blocks, 1, Len(blocks) - 1)
                 ELSE blocks
    /\ stmt' = NoStmt
    /\ UNCHANGED <<report, phasevars, procvars>>

\* AstNode::Region
execute_Region(word) ==
    /\ IF region_kind(word) = "Unknown"
       THEN execute_err("Unknown region kind")
       ELSE declare_region(region_kind(word))
    /\ stmt' = NoStmt
    /\ UNCHANGED <<blocks, report, phasevars, procvars>>

\* AstNode::Lifetime: current_scope() panics on an empty stack
execute_Lifetime ==
    /\ IF scope_stack = <<>>
       THEN /\ Running
            /\ outcome' = Returned("current_scope", "panic", "No active scope")
            /\ UNCHANGED <<state, budget, alloc_site, destroy_log>>
       ELSE create_lifetime(current_scope)
    /\ stmt' = NoStmt
    /\ UNCHANGED <<blocks, report, phasevars, procvars>>

\* AstNode::Let
execute_Let(region) ==
    /\ IF region \notin DOMAIN regions
       THEN execute_err("Unknown region")
       ELSE allocate_value(region)
    /\ stmt' = NoStmt
    /\ UNCHANGED <<blocks, report, phasevars, procvars>>

\* AstNode::Capability
execute_Capability(word, value, lifetime) ==
    /\ IF capability_kind(word) = "Unknown"
       THEN execute_err("Unknown capability kind")
       ELSE IF value \notin DOMAIN values
       THEN execute_err("Unknown value")
       ELSE IF lifetime \notin DOMAIN lifetimes
       THEN execute_err("Unknown lifetime")
       ELSE create_capability(capability_kind(word), value, lifetime)
    /\ stmt' = Stmt("Capability", word)
    /\ UNCHANGED <<blocks, report, phasevars, procvars>>

\* AstNode::Drop
execute_Drop(value) ==
    /\ IF value \notin DOMAIN values
       THEN execute_err("Unknown value")
       ELSE drop_value(value)
    /\ stmt' = NoStmt
    /\ UNCHANGED <<blocks, report, phasevars, procvars>>

\* AstNode::Assume: the affected values are all the values ctx has bound
execute_Assume ==
    /\ add_unsafe_assumption(DOMAIN values)
    /\ stmt' = NoStmt
    /\ UNCHANGED <<blocks, report, phasevars, procvars>>

\* generate reporting no assumption whatever the graph holds
has_unsafe_assumptions_never == FALSE

\* SafetyReport::generate, line 88
has_unsafe_assumptions == unsafe_assumptions # <<>>

\* SafetyReport::generate, line 84
lifetimes_ok == \A l \in DOMAIN lifetimes : ~lifetimes[l].active

\* SafetyReport::generate (the value and assumption lists are left out)
generate ==
    [verdict |-> IF unsafe_assumptions = <<>> THEN "SAFE"
                 ELSE "SAFE_IF_ASSUMPTIONS_HOLD",
     summary |-> [ownership |-> "VERIFIED", lifetimes |-> "VERIFIED",
                  capabilities |-> "VERIFIED", destruction |-> "VERIFIED"],
     ownership_ok |-> TRUE,
     lifetimes_ok |-> lifetimes_ok,
     capabilities_ok |-> TRUE,
     destruction_ok |-> TRUE,
     has_unsafe_assumptions |-> has_unsafe_assumptions]

\* the test print and exit_code share: some dimension is not ok
any_failed(r) ==
    ~r.ownership_ok \/ ~r.lifetimes_ok \/ ~r.capabilities_ok \/ ~r.destruction_ok

\* SafetyReport::print: the Summary lines and the Verdict line
print(r) ==
    [ownership |-> IF r.ownership_ok THEN "VERIFIED" ELSE "FAILED",
     lifetimes |-> IF r.lifetimes_ok THEN "VERIFIED" ELSE "FAILED",
     capabilities |-> IF r.capabilities_ok THEN "VERIFIED" ELSE "FAILED",
     destruction |-> IF r.destruction_ok THEN "VERIFIED" ELSE "FAILED",
     verdict |-> IF any_failed(r) THEN "UNSAFE"
                 ELSE IF r.has_unsafe_assumptions THEN "SAFE_IF_ASSUMPTIONS_HOLD"
                 ELSE "SAFE"]

\* SafetyReport::exit_code
exit_code(r) ==
    IF any_failed(r) THEN 2
    ELSE IF r.has_unsafe_assumptions THEN 1
    ELSE 0

\* HashMap::values(): the entries in some order, each once; the order is that
\* of the hash table and follows no order of the keys
iteration_orders(ids) ==
    {o \in [1..Cardinality(ids) -> ids] :
         \A i, j \in 1..Cardinality(ids) : o[i] = o[j] => i = j}

\* SafetyReport::generate, lines 59-75: the ValueSummary of each value, in the
\* order the value table was walked
value_summaries(order) ==
    [i \in DOMAIN order |->
        [id |-> order[i],
         origin |-> IF values[order[i]].origin = "Safe" THEN "SAFE" ELSE "UNSAFE",
         state |-> IF values[order[i]].alive THEN "ALIVE" ELSE "DESTROYED"]]

\* main, lines 68-73: execute returned Ok for the whole program; generate,
\* print, and exit with the report's code.  The two lists of the report are
\* the assumption ids and the value summaries as the tables were walked; print
\* walks the same unchanged tables again.
main_report ==
    /\ Running
    /\ blocks = <<>>
    /\ report = <<>>
    /\ \E ua_order \in iteration_orders(DOMAIN unsafe_assumptions),
          v_order \in iteration_orders(DOMAIN values) :
           report' = <<[report |-> generate, printed |-> print(generate),
                        exit_code |-> exit_code(generate),
                        unsafe_assumptions |-> ua_order,
                        values |-> value_summaries(v_order)]>>
    /\ exited' = <<exit_code(generate)>>
    /\ outcome' = Returned("main", "exit", "")
    /\ UNCHANGED <<state, budget, alloc_site, destroy_log, blocks, stmt, phasevars,
                   source, parsed>>

\* main, lines 63-66: execute returned Err; the message goes to stderr and the
\* process exits with 2, before any report
main_semantic_error ==
    /\ outcome.result = "err"
    /\ exited = <<>>
    /\ exited' = <<2>>
    /\ UNCHANGED <<state, budget, outcome, alloc_site, destroy_log, phasevars,
                   mainvars, source, parsed>>

\* main running execute over some program, then reporting
NextMain ==
    \/ \E kind \in EnterKinds : execute_block(kind)
    \/ execute_block_end
    \/ \E word \in RegionWords : execute_Region(word)
    \/ execute_Lifetime
    \/ \E region \in 1..next_region_id : execute_Let(region)
    \/ \E word \in CapabilityWords, value \in 1..next_value_id,
          lifetime \in 1..next_lifetime_id :
           execute_Capability(word, value, lifetime)
    \/ \E value \in 1..next_value_id : execute_Drop(value)
    \/ execute_Assume
    \/ main_report
    \/ main_semantic_error

SpecMain == InitMain /\ [][NextMain]_vars

\* ---------------------------------------------------------------- phases
\* The phase registry.  execute (exec.rs) calls declare_phase, current_phase
\* and the phase-taking forms of create_lifetime and create_capability, and
\* report.rs reads state.phases and state.current_phase; interpreter.rs holds
\* none of them.  They are written here after the specification's section on
\* operations, around the operations above: a phase id is the index of the
\* phase in the registry (report.rs:141 indexes phases by it).

\* the phase names drawn for declare_phase
PhaseNames == {"build", "run"}

\* the scope kinds drawn for enter_scope where phases are declared
PhaseEnterKinds == {"Module", "Function"}

\* the ids of the declared phases
PhaseIds == {phases[i].id : i \in DOMAIN phases}

\* declare_phase making the phase it appends current
next_current_phase_latest(id) == id

\* declare_phase: the new phase becomes current if no phase was
next_current_phase(id) == IF current_phase = NoPhase THEN id ELSE current_phase

\* declare_phase(name)
declare_phase(name) ==
    /\ Running
    /\ Len(phases) < MaxPhases
    /\ IF scope_stack = <<>>
       THEN /\ outcome' = Returned("current_scope", "panic", "No active scope")
            /\ UNCHANGED <<phases, current_phase>>
       ELSE IF scopes[current_scope].kind # "Module"
       THEN /\ outcome' = Returned("declare_phase", "err",
                                   "Phases can only be declared at module level")
            /\ UNCHANGED <<phases, current_phase>>
       ELSE IF \E i \in DOMAIN phases : phases[i].name = name
       THEN /\ outcome' = Returned("declare_phase", "err", "Duplicate phase name")
            /\ UNCHANGED <<phases, current_phase>>
       ELSE LET id == Len(phases)
            IN  /\ phases' = Append(phases,
                                    [id |-> id, name |-> name, order |-> Len(phases)])
                /\ current_phase' = next_current_phase(id)
                /\ outcome' = Returned("declare_phase", "ok", "")
    /\ UNCHANGED <<state, budget, alloc_site, destroy_log, lifetime_phase,
                   capability_phase, mainvars, procvars>>

\* create_lifetime(scope, phase): a phase must exist, the lifetime is tagged with it
create_lifetime_in_phase(scope, phase) ==
    /\ IF phase \notin PhaseIds
       THEN /\ Running
            /\ outcome' = Returned("create_lifetime", "err", "No current phase")
            /\ UNCHANGED <<state, budget, alloc_site, destroy_log, lifetime_phase>>
       ELSE /\ create_lifetime(scope)
            /\ lifetime_phase' = IF outcome'.result = "ok"
                                 THEN Append(lifetime_phase, phase)
                                 ELSE lifetime_phase
    /\ UNCHANGED <<phases, current_phase, capability_phase, mainvars, procvars>>

\* create_capability without the phase test
phase_violation_ignored(lifetime, phase) == FALSE

\* create_capability: the lifetime's phase differs from the phase of the call
phase_violation(lifetime, phase) == lifetime_phase[lifetime] # phase

\* create_capability(kind, value, lifetime, phase): rejected on a phase
\* violation, the capability is tagged with the phase
create_capability_in_phase(kind, value, lifetime, phase) ==
    /\ IF /\ value \in DOMAIN values
          /\ values[value].alive
          /\ lifetime \in DOMAIN lifetimes
          /\ lifetimes[lifetime].active
          /\ phase_violation(lifetime, phase)
       THEN /\ Running
            /\ outcome' = Returned("create_capability", "err", "Phase violation")
            /\ UNCHANGED <<state, budget, alloc_site, destroy_log, capability_phase>>
       ELSE /\ create_capability(kind, value, lifetime)
            /\ capability_phase' = IF outcome'.result = "ok"
                                   THEN Append(capability_phase, phase)
                                   ELSE capability_phase
    /\ UNCHANGED <<phases, current_phase, lifetime_phase, mainvars, procvars>>

\* Any sequence of calls on an InterpreterState with its phase registry.  A
\* phase argument is a declared phase id or the next undeclared one.
NextPhase ==
    \/ \E kind \in PhaseEnterKinds :
           enter_scope(kind) /\ UNCHANGED <<phasevars, mainvars, procvars>>
    \/ exit_scope /\ UNCHANGED <<phasevars, mainvars, procvars>>
    \/ \E name \in PhaseNames : declare_phase(name)
    \/ \E kind \in DeclaredRegionKinds :
           declare_region(kind) /\ UNCHANGED <<phasevars, mainvars, procvars>>
    \/ \E region \in 1..next_region_id :
           allocate_value(region) /\ UNCHANGED <<phasevars, mainvars, procvars>>
    \/ \E scope \in 1..next_scope_id, phase \in 0..Len(phases) :
           create_lifetime_in_phase(scope, phase)
    \/ \E kind \in GrantedKinds, value \in 1..next_value_id,
          lifetime \in 1..next_lifetime_id, phase \in 0..Len(phases) :
           create_capability_in_phase(kind, value, lifetime, phase)

SpecPhase == InitPhase /\ [][NextPhase]_vars

\* ---------------------------------------------------------------- parser
\* parser::parse (parser.rs).  A line is the sequence of its words
\* (split_whitespace), the empty sequence for a blank line; the parser's
\* position is the index of the next line its iterator yields.

\* the lines drawn for a source file
LineKinds ==
    {<<>>, <<"}">>, <<"{">>, <<"function", "f", "{">>, <<"unsafe">>,
     <<"region", "heap", "h">>, <<"drop">>, <<"bogus">>}

\* the source files of at most MaxLines lines
Sources == UNION {[1..n -> LineKinds] : n \in 0..MaxLines}

\* what a parsing function returns: Ok(nodes), Err(msg) or a panic, and where
\* the line iterator then stands
Parsed(status, nodes, pos, msg) ==
    [status |-> status, nodes |-> nodes, pos |-> pos, msg |-> msg]

\* parse_line: the highest index into parts each keyword reads; assume reads
\* the text after the first quote instead, taken here as the second word
words_read(keyword) ==
    CASE keyword = "function" -> 2
      [] keyword = "unsafe" -> 1
      [] keyword = "region" -> 3
      [] keyword = "lifetime" -> 5
      [] keyword = "let" -> 4
      [] keyword = "capability" -> 5
      [] keyword = "drop" -> 2
      [] keyword = "assume" -> 2
      [] OTHER -> 1

RECURSIVE expect_brace(_, _, _)
\* expect_brace: Ok if the header line ends with a brace, else the next
\* non-blank line must be the brace
expect_brace(lines, current_line, pos) ==
    IF current_line # <<>> /\ current_line[Len(current_line)] = "{"
    THEN Parsed("ok", <<>>, pos, "")
    ELSE IF pos > Len(lines)
    THEN Parsed("err", <<>>, pos, "Expected '{'")
    ELSE IF lines[pos] = <<>>
    THEN expect_brace(lines, <<>>, pos + 1)
    ELSE IF lines[pos] = <<"{">>
    THEN Parsed("ok", <<>>, pos + 1, "")
    ELSE Parsed("err", <<>>, pos + 1, "Expected '{'")

RECURSIVE parse_block(_, _, _)
RECURSIVE parse_line(_, _)
\* parse_line: one statement from the line at pos, with its block if it has one
parse_line(lines, pos) ==
    LET parts == lines[pos]
        keyword == parts[1]
    IN  IF keyword \notin {"function", "unsafe", "region", "lifetime", "let",
                           "capability", "drop", "assume"}
        THEN Parsed("err", <<>>, pos + 1, "Unknown syntax")
        ELSE IF Len(parts) < words_read(keyword)
        THEN Parsed("panic", <<>>, pos + 1, "index out of bounds")
        ELSE IF keyword \in {"function", "unsafe"}
        THEN LET brace == expect_brace(lines, parts, pos + 1)
             IN  IF brace.status # "ok"
                 THEN brace
                 ELSE LET body == parse_block(lines, brace.pos, <<>>)
                      IN  IF body.status # "ok"
                          THEN body
                          ELSE Parsed("ok",
                                      <<[node |-> keyword, body |-> body.nodes]>>,
                                      body.pos, "")
        ELSE Parsed("ok", <<[node |-> keyword, body |-> <<>>]>>, pos + 1, "")

\* parse_block: statements until the input ends or a line is a closing brace
parse_block(lines, pos, nodes) ==
    IF pos > Len(lines)
    THEN Parsed("ok", nodes, pos, "")
    ELSE IF lines[pos] = <<>>
    THEN parse_block(lines, pos + 1, nodes)
    ELSE IF lines[pos] = <<"}">>
    THEN Parsed("ok", nodes, pos + 1, "")
    ELSE LET line == parse_line(lines, pos)
         IN  IF line.status # "ok"
             THEN line
             ELSE parse_block(lines, line.pos, nodes \o line.nodes)

\* parse: one parse_block over the whole source
parse(lines) == parse_block(lines, 1, <<>>)

\* main, lines 52-58: parse the source; a parse error exits with 3, an AST goes
\* on to execute
main_parse ==
    /\ parsed = <<>>
    /\ parsed' = <<parse(source)>>
    /\ exited' = IF parse(source).status = "err" THEN <<3>> ELSE exited
    /\ UNCHANGED <<state, budget, outcome, alloc_site, destroy_log, phasevars,
                   mainvars, source>>

NextParse == main_parse

\* main started on some source file
InitParse ==
    /\ New
    /\ NoPhases
    /\ blocks = <<>>
    /\ stmt = NoStmt
    /\ report = <<>>
    /\ exited = <<>>
    /\ parsed = <<>>
    /\ source \in Sources
    /\ budget = MaxEntitiesMain

SpecParse == InitParse /\ [][NextParse]_vars

\* ---------------------------------------------------------------- claims
\* the scopes exit_scope has popped: entered once, no longer on the stack
Exited(s) == s \in DOMAIN scopes /\ s \notin Range(scope_stack)

\* some scope on stack st is Unsafe
HasUnsafe(st) == \E i \in DOMAIN st : scopes[st[i]].kind = "Unsafe"

\* the number of ownership edges of value v
EdgeCount(v) == Cardinality({i \in DOMAIN ownership_edges : ownership_edges[i].value = v})

\* s is an Unsafe scope or has one among its ancestors in the scope tree
RECURSIVE UnderUnsafe(_)
UnderUnsafe(s) ==
    IF s = NoScope THEN FALSE
    ELSE scopes[s].kind = "Unsafe" \/ UnderUnsafe(scopes[s].parent)

\* C1: a UniqueMut capability on a value is the only capability on that value,
\* whatever the lifetimes and scopes of the capabilities are.
C1_UniqueMutExclusive ==
    \A c1 \in capabilities : \A c2 \in capabilities :
        (c1.kind = "UniqueMut" /\ c2.value = c1.value) => c2.id = c1.id

\* C2: every capability in the table references an alive value and an active
\* lifetime.
C2_CapabilitiesReferenceLive ==
    \A cap \in capabilities :
        /\ cap.value \in DOMAIN values
        /\ values[cap.value].alive
        /\ cap.lifetime \in DOMAIN lifetimes
        /\ lifetimes[cap.lifetime].active

\* a scope exit has destroyed the value and expired the lifetime a capability
\* referenced, and the capability is gone with them
C2_Witness ==
    /\ outcome.op = "exit_scope"
    /\ outcome.result = "ok"
    /\ next_capability_id > 1
    /\ capabilities = {}
    /\ \E v \in DOMAIN values : destroy_log[v] = <<"exit_scope">>
    /\ \E l \in DOMAIN lifetimes : ~lifetimes[l].active

\* C3: an alive value has exactly one ownership edge, a destroyed value none.
C3_OneEdgeWhileAlive ==
    \A v \in DOMAIN values :
        EdgeCount(v) = IF values[v].alive THEN 1 ELSE 0

\* one value was dropped explicitly (its edge removed by drop_value)
C3_Witness ==
    \E v \in DOMAIN values :
        /\ ~values[v].alive
        /\ destroy_log[v] = <<"drop_value">>
        /\ scopes[alloc_site[v].owner].active

\* C4: in the state before a successful drop_value(V) no capability of the
\* whole table references V, whichever scope it was created in.
C4_DropOnlyWithoutCapabilities ==
    [][\A v \in DOMAIN values :
          (values[v].alive /\ ~values'[v].alive /\ outcome'.op = "drop_value")
              => ~\E cap \in capabilities : cap.value = v]_vars

\* a value that had a capability, created in a scope since exited, was dropped
C4_Witness ==
    /\ outcome = Returned("drop_value", "ok", "")
    /\ \E v \in DOMAIN values :
        /\ destroy_log[v] = <<"drop_value">>
        /\ next_capability_id > 1
        /\ DOMAIN values = {v}

\* C5: no ownership edge is owned by an Unsafe scope, and the owner given at
\* allocation is the top-most scope of the stack whose kind is not Unsafe.
C5_OwnerIsNearestSafeScope ==
    /\ \A i \in DOMAIN ownership_edges :
          /\ scopes[ownership_edges[i].owner].kind # "Unsafe"
          /\ ownership_edges[i].owner = alloc_site[ownership_edges[i].value].owner
    /\ \A v \in DOMAIN values :
          \E i \in DOMAIN alloc_site[v].stack :
              /\ alloc_site[v].stack[i] = alloc_site[v].owner
              /\ scopes[alloc_site[v].owner].kind # "Unsafe"
              /\ \A j \in DOMAIN alloc_site[v].stack :
                    j > i => scopes[alloc_site[v].stack[j]].kind = "Unsafe"

\* a value allocated inside an unsafe block nested in a function: the function owns it
C5_Witness ==
    \E v \in DOMAIN values :
        /\ Len(alloc_site[v].stack) = 2
        /\ scopes[alloc_site[v].stack[2]].kind = "Unsafe"
        /\ scopes[alloc_site[v].stack[1]].kind = "Function"
        /\ alloc_site[v].owner = alloc_site[v].stack[1]
        /\ EdgeCount(v) = 1

\* C6: a value's origin is Unsafe iff some scope of the stack, at any depth,
\* was Unsafe when allocate_value created it, and the origin never changes.
C6_OriginIffUnsafeOnStack ==
    /\ [](\A v \in DOMAIN values :
            (values[v].origin = "Unsafe") <=> HasUnsafe(alloc_site[v].stack))
    /\ [][\A v \in DOMAIN values : values'[v].origin = values[v].origin]_vars

\* a value of Unsafe origin allocated while the top scope was not Unsafe
C6_Witness ==
    \E v \in DOMAIN values :
        /\ values[v].origin = "Unsafe"
        /\ Len(alloc_site[v].stack) = 2
        /\ scopes[alloc_site[v].stack[2]].kind # "Unsafe"

\* C7: alive goes from true to false at most once per value, by drop_value or
\* by the exit of the owning scope, and never back; a dropped value is not
\* destroyed again when its former owner exits.
C7_DestroyedOnce ==
    /\ [](\A v \in DOMAIN values : Len(destroy_log[v]) <= 1)
    /\ [][\A v \in DOMAIN values :
             /\ ~values[v].alive => ~values'[v].alive
             /\ (values[v].alive /\ ~values'[v].alive) =>
                   \/ outcome'.op = "drop_value"
                   \/ /\ outcome'.op = "exit_scope"
                      /\ scope_stack # <<>>
                      /\ scope_stack[Len(scope_stack)] = alloc_site[v].owner]_vars

\* a value dropped explicitly whose former owning scope has since exited
C7_Witness ==
    \E v \in DOMAIN values :
        /\ destroy_log[v] = <<"drop_value">>
        /\ Exited(alloc_site[v].owner)
        /\ outcome.op = "exit_scope"
        /\ outcome.result = "ok"

\* C8: once exit_scope has popped S, every lifetime of S is inactive, no
\* capability of S is in the table, every value S owned is destroyed and no
\* ownership edge is owned by S.
C8_ExitedScopeHoldsNothing ==
    \A s \in DOMAIN scopes :
        Exited(s) =>
            /\ \A l \in DOMAIN lifetimes : lifetimes[l].scope = s => ~lifetimes[l].active
            /\ \A cap \in capabilities : cap.scope # s
            /\ \A v \in DOMAIN values : alloc_site[v].owner = s => ~values[v].alive
            /\ \A i \in DOMAIN ownership_edges : ownership_edges[i].owner # s

\* an exited scope that owned a value, held a lifetime and had a capability
\* created in it, followed by a later operation
C8_Witness ==
    \E s \in DOMAIN scopes :
        /\ Exited(s)
        /\ \E l \in DOMAIN lifetimes : lifetimes[l].scope = s
        /\ \E v \in DOMAIN values : alloc_site[v].owner = s
        /\ next_capability_id > 1
        /\ capabilities = {}
        /\ outcome.op # "exit_scope"

\* C9: an operation that returns an error leaves every field of the
\* interpreter state as it was before the call.
C9_ErrorLeavesStateUnchanged ==
    [][outcome'.result = "err" => state' = state]_vars

\* a drop rejected for its capabilities, after other operations changed the state
C9_Witness ==
    /\ outcome = Returned("drop_value", "err",
                          "Cannot drop value because active capabilities exist")
    /\ capabilities # {}

\* C10: add_unsafe_assumption is rejected exactly when no scope of the stack is
\* Unsafe, and every recorded assumption's scope is Unsafe or has an Unsafe
\* ancestor in the scope tree.
C10_AssumptionsOnlyUnderUnsafe ==
    /\ [](\A a \in DOMAIN unsafe_assumptions :
            UnderUnsafe(unsafe_assumptions[a].scope))
    /\ [][outcome'.op = "add_unsafe_assumption" =>
             (outcome'.result = "err" <=> ~HasUnsafe(scope_stack))]_vars

\* an assumption recorded in a Function scope nested in an unsafe block
C10_Witness ==
    \E a \in DOMAIN unsafe_assumptions :
        /\ scopes[unsafe_assumptions[a].scope].kind = "Function"
        /\ UnderUnsafe(unsafe_assumptions[a].scope)

\* C15: a region whose declaring scope has exited can no longer be used: every
\* value was allocated while the scope that declared its region was on the stack
C15_RegionUnusableAfterScopeExit ==
    \A v \in DOMAIN values :
        regions[values[v].region].scope \in Range(alloc_site[v].stack)

\* C16: a scope is active exactly while it is on the scope stack, it is on the
\* stack at most once, and once inactive or popped it stays so
C16_ActiveIffOnStack ==
    /\ [](/\ \A s \in DOMAIN scopes : scopes[s].active <=> s \in Range(scope_stack)
          /\ \A i, j \in DOMAIN scope_stack :
                 scope_stack[i] = scope_stack[j] => i = j)
    /\ [][\A s \in DOMAIN scopes :
              /\ ~scopes[s].active => ~scopes'[s].active
              /\ s \notin Range(scope_stack) => s \notin Range(scope_stack')]_vars

\* a scope was exited and a later scope entered: one inactive and off the stack,
\* one active and on it
C16_Witness ==
    /\ outcome = Returned("enter_scope", "ok", "")
    /\ \E s, t \in DOMAIN scopes :
           /\ ~scopes[s].active /\ s \notin Range(scope_stack)
           /\ scopes[t].active /\ t \in Range(scope_stack)

\* C20: drop_value succeeds only on a value whose ownership edge names the top
\* scope, which is then not an Unsafe scope; a rejected drop leaves the values
\* and the ownership edges as they were; under an Unsafe top every drop is rejected
C20_DropOnlyByOwnerOnTop ==
    [][outcome'.op = "drop_value" =>
          /\ outcome'.result = "ok" =>
                 \E v \in DOMAIN values :
                     /\ values[v].alive /\ ~values'[v].alive
                     /\ \E i \in DOMAIN ownership_edges :
                            /\ ownership_edges[i].value = v
                            /\ ownership_edges[i].owner = scope_stack[Len(scope_stack)]
                     /\ scopes[scope_stack[Len(scope_stack)]].kind # "Unsafe"
          /\ outcome'.result = "err" =>
                 values' = values /\ ownership_edges' = ownership_edges
          /\ is_in_unsafe_scope_top => outcome'.result = "err"]_vars

\* a drop issued under an Unsafe top was rejected for ownership, the value is
\* alive and still owned by the enclosing scope
C20_Witness ==
    /\ outcome = Returned("drop_value", "err",
                          "Cannot drop value not owned by current scope")
    /\ is_in_unsafe_scope_top
    /\ \E i \in DOMAIN ownership_edges :
           /\ values[ownership_edges[i].value].alive
           /\ ownership_edges[i].owner # scope_stack[Len(scope_stack)]

C12_AllDimensionsVerified ==
    report # <<>> =>
        LET r == report[1]
        IN  /\ \A d \in {"ownership", "lifetimes", "capabilities", "destruction"} :
                   r.report.summary[d] = "VERIFIED" /\ r.printed[d] = "VERIFIED"
            /\ \A l \in DOMAIN lifetimes : ~lifetimes[l].active

\* a program that declared a lifetime was reported
C12_Witness ==
    /\ report # <<>>
    /\ lifetimes # <<>>
    /\ report[1].printed.lifetimes = "VERIFIED"

\* C13: when a program completes, the scope stack is empty again and no scope
\* is active, no value allocated inside a block is alive, the capability table
\* is empty and no ownership edge is left
C13_CompletionReleasesEverything ==
    report # <<>> =>
        /\ scope_stack = <<>>
        /\ \A s \in DOMAIN scopes : ~scopes[s].active
        /\ \A v \in DOMAIN values : alloc_site[v].stack # <<>> => ~values[v].alive
        /\ capabilities = {}
        /\ ownership_edges = <<>>

\* a program that allocated a value and granted a capability on it was reported
C13_Witness ==
    /\ report # <<>>
    /\ scopes # <<>>
    /\ values # <<>>
    /\ next_capability_id > 1

\* C14: after every statement of a program the scope stack is not empty, its
\* bottom is a Module scope, and neither current_scope nor effective_owner_scope
\* has panicked
C14_ModuleScopeAtBottom ==
    (report = <<>> /\ outcome.op # "new") =>
        /\ scope_stack # <<>>
        /\ scopes[scope_stack[1]].kind = "Module"
        /\ outcome.result # "panic"

\* C19: a capability statement whose kind is Own, SharedRead, ThreadSend or
\* ThreadShare, naming a bound value and a bound lifetime, is accepted when
\* there are values and lifetimes, the values are alive and carry no UniqueMut
\* capability and the lifetimes are active
C19_NonUniqueKindsAccepted ==
    [][(/\ stmt'.node = "Capability"
        /\ stmt'.kind \in {"Own", "SharedRead", "ThreadSend", "ThreadShare"}
        /\ outcome'.msg \notin {"Unknown value", "Unknown lifetime"}
        /\ values # <<>>
        /\ lifetimes # <<>>
        /\ \A v \in DOMAIN values :
               /\ values[v].alive
               /\ ~\E cap \in capabilities : cap.value = v /\ cap.kind = "UniqueMut"
        /\ \A l \in DOMAIN lifetimes : lifetimes[l].active)
       => outcome'.result = "ok"]_vars

C18_FirstPhaseStaysCurrent ==
    /\ [](/\ phases = <<>> <=> current_phase = NoPhase
          /\ phases # <<>> => current_phase = phases[1].id
          /\ \A i \in DOMAIN phases : phases[i].order = i - 1)
    /\ [][/\ current_phase # NoPhase => current_phase' = current_phase
          /\ phases' # phases =>
                 /\ Len(phases') = Len(phases) + 1
                 /\ SubSeq(phases', 1, Len(phases)) = phases
                 /\ phases'[Len(phases')].order = Len(phases)]_vars

\* a second phase was declared and lifetimes were created after it; the first
\* phase is still the current one
C18_Witness ==
    /\ Len(phases) >= 2
    /\ outcome.op = "create_lifetime"
    /\ outcome.result = "ok"
    /\ current_phase = phases[1].id

\* C24: exit_scope never meets an owned value that is already destroyed: the
\* rejection "Value already destroyed before scope exit" is returned by no call
C24_NoDoubleDestructionOnExit ==
    /\ outcome.msg # "Value already destroyed before scope exit"
    /\ \A i \in DOMAIN ownership_edges : values[ownership_edges[i].value].alive

\* a value was dropped and the scope that owned it exited afterwards without
\* an error
C24_Witness ==
    /\ outcome.op = "exit_scope"
    /\ outcome.result = "ok"
    /\ \E v \in DOMAIN values :
           /\ destroy_log[v] = <<"drop_value">>
           /\ alloc_site[v].owner \notin Range(scope_stack)

\* C23: an exit_scope call that returned Ok went through the exit cascade in
\* this order: lifetimes deactivated, capabilities deleted, owned values
\* destroyed, ownership edges removed, scope marked inactive
C23_ExitCascadeOrder ==
    (outcome.op = "exit_scope" /\ outcome.result = "ok") =>
        outcome.steps = <<"lifetimes", "capabilities", "values", "edges", "scope">>

\* C21: once a statement is rejected no report exists, the only step left is
\* the process exiting with code 2, and that step runs no statement: the
\* interpreter state, the last outcome and the report stay as they are
C21_RejectionAbortsWithExit2 ==
    /\ [](outcome.result = "err" => (report = <<>> /\ exited \in {<<>>, <<2>>}))
    /\ [][outcome.result = "err" =>
              /\ state' = state
              /\ outcome' = outcome
              /\ report' = report
              /\ exited' = <<2>>]_vars

\* a capability statement was rejected inside a block and the process has
\* exited with 2 without a report
C21_Witness ==
    /\ outcome.result = "err"
    /\ outcome.op = "create_capability"
    /\ blocks # <<>>
    /\ report = <<>>
    /\ exited = <<2>>

\* C22: the report lists the unsafe assumptions in ascending id order and the
\* values in ascending id order
C22_ReportListsSortedById ==
    report # <<>> =>
        LET r == report[1]
        IN  /\ \A i, j \in DOMAIN r.unsafe_assumptions :
                   i < j => r.unsafe_assumptions[i] < r.unsafe_assumptions[j]
            /\ \A i, j \in DOMAIN r.values :
                   i < j => r.values[i].id < r.values[j].id

\* C25: when parsing returns an AST every non-blank line of the source was
\* read by the parser, and no line makes the parser panic instead of returning
\* a parse error
C25_NoLineSilentlySkipped ==
    parsed # <<>> =>
        /\ parsed[1].status \in {"ok", "err"}
        /\ parsed[1].status = "ok" =>
               \A i \in DOMAIN source : i >= parsed[1].pos => source[i] = <<>>

====
